---- MODULE Spec2Model ----
(***************************************************************************)
(* Model of the mpc-carrier crate: the outbound session of node A          *)
(* (src/src/node.rs outgoing / serve_outgoing), the accept loop and the    *)
(* inbound sessions of node B (src/src/lib.rs listen, src/src/node.rs      *)
(* incoming / serve_incoming), the channel sets (src/src/channels.rs),     *)
(* the framed codec (src/src/protobuf_tcp.rs) and Carrier::run.            *)
(*                                                                         *)
(* Both nodes run the same code.  The model follows the traffic that A     *)
(* initiates: A's application calls Outgoing::send, A's outbound session   *)
(* dials B, B's accept loop spawns an inbound session, B's application     *)
(* calls Incoming::recv and answers.  Connections opened by other clients  *)
(* (any SNI, malformed frames) reach B's accept loop as well.              *)
(***************************************************************************)
EXTENDS Integers, Sequences, FiniteSets, TLC

\* ---------------------------------------------------------------- bounds
MaxReqs == 2        \* Outgoing::send calls of A's application
MaxConns == 1       \* connections of A that B's accept loop has open at a time
QueueCap == 1       \* slots of an incoming queue (CHANNEL_CAPACITY, scaled)
OutQueueCap == 2    \* slots of an outgoing queue (CHANNEL_CAPACITY, scaled)
WireCap == 1        \* frames a transport buffer holds in one direction
WireBytes == 65536  \* bytes of one frame a transport buffer holds
RunReqs == 2        \* Outgoing::send calls in the runs of SpecRun
MeshReqs == 1       \* Outgoing::send calls in the runs of SpecMesh

\* --------------------------------------------------- program constants
MAX_LEN == 8 * 1024 * 1024

Procs == {"A", "B"}
Names == {"a", "b"}                 \* peer identifiers (DNS names)
NoSni == "-"                        \* the client sent no server name
Stranger == "stranger"              \* a server name nobody configured
Ids == {1, 2}                       \* request_id values
Lens == {1, MAX_LEN + 1}            \* encoded lengths of a NodeRequest
Tokens == 1..MaxReqs                \* one per Outgoing::send call
Ext == MaxConns + 1                 \* the connection of a foreign client
ExtTok == MaxReqs + 1               \* the envelope of a foreign client's request
Envs == Tokens \cup {ExtTok}        \* envelopes B's sessions handle
Conns == 1..Ext                     \* 1..MaxConns: connections A opened
BadFrames ==                        \* frames only a foreign client writes:
                                    \* prefix MAX_LEN + 1, payload cut short,
                                    \* payload that is no message
    { [pre |-> <<0, 128, 0, 1>>, got |-> 0, dec |-> TRUE, id |-> 0, t |-> 0],
      [pre |-> <<0, 0, 0, 1>>, got |-> 0, dec |-> TRUE, id |-> 0, t |-> 0],
      [pre |-> <<0, 0, 0, 1>>, got |-> 1, dec |-> FALSE, id |-> 0, t |-> 0] }
None == 0

VARIABLES
    calls,      \* number of Outgoing::send calls A's application makes
    host,       \* host[p]: the DNS name under which node p is reached
    channels,   \* keys of B's directory, in the order Incoming.channels
                \* iterates them
    run,        \* run[p]: "init", "running", or the Err Carrier::run returned
    req,        \* req[t]: the NodeRequest of call t, [id, len]
    result,     \* result[t]: what Outgoing::send call t returned so far
    reply,      \* reply[t]: the NodeResponse call t returned, [id, src]
    senders,    \* A's Outgoing (the outgoing mpsc::Sender) is alive
    outgoing,   \* A's outgoing queue for its peer: Seq of calls
    sess,       \* position of A's node::outgoing task
    conn,       \* the connection A's serve_outgoing holds (None: none)
    callbacks,  \* serve_outgoing's HashMap request_id -> callback (call)
    wmsg,       \* the request serve_outgoing is writing (None: none)
    outRes,     \* what the last serve_outgoing call returned
    owner,      \* owner[c]: "free", "A" (A's session) or "ext" (other client)
    sni,        \* sni[c]: the server name the client presented
    copen,      \* copen[c]: the client still holds its end of the stream
    c2s,        \* c2s[c]: frames in flight client -> server
    s2c,        \* s2c[c]: frames in flight server -> client
    ipc,        \* ipc[c]: position of B's node::incoming task of c
    irx,        \* irx[c]: request incoming_requests read and still has to push
    ipend,      \* ipend[c]: serve_incoming's FuturesUnordered of reply receivers
    iw,         \* iw[c]: the response serve_incoming is writing
    ires,       \* ires[c]: what serve_incoming returned
    npush,      \* npush[c]: envelopes c pushed into an incoming queue
                \* (counted up to MaxReqs)
    incoming,   \* incoming[n]: B's incoming queue of peer n: Seq of calls
    held,       \* envelopes B's application received and has not answered
    hkey,       \* hkey[t]: the peer_id Incoming::recv yielded with envelope t
    och,        \* och[t]: the reply channel of incoming envelope t
    via,        \* via[t]: server name of the connection that pushed envelope t
    eos,        \* B's Incoming::recv returned None
    sent,       \* sent[t]: times request t was written to a wire (history)
    inflight    \* inflight[i]: request frames with id i written on A's
                \* connection minus responses with id i delivered from it

vars == <<calls, host, channels, eos, run, req, result, reply, senders, outgoing, sess, conn,
          callbacks, wmsg, outRes, owner, sni, copen, c2s, s2c, ipc, irx,
          ipend, iw, ires, npush, incoming, held, hkey, och, via, sent,
          inflight>>

aVars == <<req, result, reply, senders, outgoing, sess, conn, callbacks,
           wmsg, outRes, sent, inflight>>
cVars == <<owner, sni, copen, c2s, s2c>>
iVars == <<ipc, irx, ipend, iw, ires, npush>>
bVars == <<incoming, held, hkey, och, via>>

\* --------------------------------------------------------------- helpers
Other(p) == IF p = "A" THEN "B" ELSE "A"

\* Carrier::new: the keys of node p's channel maps are the keys of its
\* directory; A lists B under the name it dials.
Nodes(p) == IF p = "B" THEN {channels[i] : i \in DOMAIN channels}
                       ELSE {host[Other(p)]}

\* Carrier::run: the server name of an outbound session is the directory key.
Dnsname(node) == node

NoReq == [id |-> 0, len |-> 0]
NoFrame == [pre |-> <<0, 0, 0, 0>>, got |-> 0, dec |-> TRUE, id |-> 0, t |-> 0]
EmptyMap == [i \in Ids |-> None]
Range(f) == {f[x] : x \in DOMAIN f}

\* A slip of U32BE: the bytes of the length in little-endian order.
U32LE(n) ==
    <<n % 256, (n \div 256) % 256, (n \div 65536) % 256,
      (n \div 16777216) % 256>>

\* write_u32: the four bytes of a u32, most significant first.  (The lengths
\* written are at most MAX_LEN, so length.try_into() is never out of range.)
U32BE(n) ==
    <<(n \div 16777216) % 256, (n \div 65536) % 256, (n \div 256) % 256,
      n % 256>>

\* read_u32: the u32 of four bytes, most significant first.
ReadU32(b) == ((b[1] * 256 + b[2]) * 256 + b[3]) * 256 + b[4]

\* Writer::write: InvalidLen before any byte when the encoded length exceeds
\* max_len, else the frame: the length prefix (pre) and that many payload
\* bytes (got counts them).
Write(len, id, t, max_len) ==
    IF len > max_len
    THEN [res |-> "InvalidLen", frame |-> NoFrame]
    ELSE [res |-> "Ok",
          frame |-> [pre |-> U32BE(len), got |-> len, dec |-> TRUE,
                     id |-> id, t |-> t]]

\* Reader::read: the error of a frame, "Ok" for a well-formed one.
Read(f, max_len) ==
    LET length == ReadU32(f.pre)
    IN IF length > max_len THEN "InvalidLen"
       ELSE IF f.got < length THEN "Io"
       ELSE IF ~f.dec THEN "Decode"
       ELSE "Ok"

\* write_all and flush on a stream with a bounded transport buffer: a frame
\* goes out when the buffer has a free slot and either holds the frame whole
\* or the other end is reading meanwhile and drains it.
Room(buf, len, drained) ==
    Len(buf) < WireCap /\ (len <= WireBytes \/ drained)

\* HashMap::insert: the map with key id set to callback t, and the value the
\* key had before (None: the key was absent).
Insert(map, id, t) == [map |-> [map EXCEPT ![id] = t], old |-> map[id]]

\* A slip of Absent: the message is written whether or not the key was there.
AbsentAlways(old) == TRUE

\* Option::is_none of the value insert returned: the message is written
\* only when the key was absent.
Absent(old) == old = None

\* A slip of Looping: the loop ends when serve_outgoing returned Ok(()).
LoopingUntilOk(res) == res # "Ok"

\* The loop of node::outgoing has no exit: serve_outgoing is called again
\* whatever the last call returned.
Looping(res) == TRUE

\* A slip of Remove: the callback of any pending key is taken, whatever the
\* request_id of the response.
RemoveAny(map, id) ==
    IF \E i \in Ids : map[i] # None
    THEN LET k == CHOOSE i \in Ids : map[i] # None
         IN [map |-> [map EXCEPT ![k] = None], old |-> map[k]]
    ELSE [map |-> map, old |-> None]

\* HashMap::remove: the map without key id, and the value the key had.
Remove(map, id) == [map |-> [map EXCEPT ![id] = None], old |-> map[id]]

\* A slip of Send: the new envelope overtakes the queued ones.
SendFront(q, t) == <<t>> \o q

\* mpsc::Sender::send: the envelope joins the queue behind the queued ones.
Send(q, t) == Append(q, t)

NoCh == [st |-> "none", id |-> 0, len |-> 0]   \* no reply channel yet
Gone == [st |-> "gone", id |-> 0, len |-> 0]   \* receiver dropped or reply taken
RespLen == CHOOSE l \in Lens : l <= MAX_LEN  \* length of a NodeResponse

\* A slip of DropSenders: the senders are kept alive, nobody is woken.
KeepSenders(rs, toks) == rs

\* Dropping the oneshot senders of the calls in toks: a call still awaiting
\* its receiver gets Canceled, which Outgoing::send turns into ReturnClosed.
DropSenders(rs, toks) ==
    [t \in Tokens |->
        IF t \in toks /\ rs[t] = "waiting" THEN "ReturnClosed" ELSE rs[t]]

\* The client drops its end of connection c; the slot is free again once
\* the server task of c has ended too.
CloseClient(c) ==
    IF ipc[c] = "Done"
    THEN /\ owner' = [owner EXCEPT ![c] = "free"]
         /\ sni' = [sni EXCEPT ![c] = NoSni]
         /\ ipc' = [ipc EXCEPT ![c] = "none"]
         /\ ires' = [ires EXCEPT ![c] = "none"]
         /\ npush' = [npush EXCEPT ![c] = 0]
         /\ copen' = [copen EXCEPT ![c] = FALSE]
         /\ c2s' = [c2s EXCEPT ![c] = <<>>]
         /\ s2c' = [s2c EXCEPT ![c] = <<>>]
    ELSE /\ copen' = [copen EXCEPT ![c] = FALSE]
         /\ s2c' = [s2c EXCEPT ![c] = <<>>]
         /\ UNCHANGED <<owner, sni, ipc, ires, npush, c2s>>

\* ------------------------------------------------------------------ Init
\* B's directory lists A alone, or A and a second peer.
OnePeer == {<<host["A"]>>}
TwoPeers == {<<"a", "b">>, <<"b", "a">>}

Start(ncalls, dirs) ==
    /\ calls = ncalls
    /\ host \in {h \in [Procs -> Names] : h["A"] = "a"}
    /\ channels \in dirs
    /\ eos = FALSE
    /\ run = [p \in Procs |-> "init"]
    /\ req = [t \in Tokens |-> NoReq]
    /\ result = [t \in Tokens |-> "none"]
    /\ reply = [t \in Tokens |-> NoFrame]
    /\ senders = TRUE
    /\ outgoing = <<>>
    /\ sess = "Connecting"
    /\ conn = None
    /\ callbacks = EmptyMap
    /\ wmsg = None
    /\ outRes = "none"
    /\ owner = [c \in Conns |-> "free"]
    /\ sni = [c \in Conns |-> NoSni]
    /\ copen = [c \in Conns |-> FALSE]
    /\ c2s = [c \in Conns |-> <<>>]
    /\ s2c = [c \in Conns |-> <<>>]
    /\ ipc = [c \in Conns |-> "none"]
    /\ irx = [c \in Conns |-> None]
    /\ ipend = [c \in Conns |-> {}]
    /\ iw = [c \in Conns |-> NoFrame]
    /\ ires = [c \in Conns |-> "none"]
    /\ npush = [c \in Conns |-> 0]
    /\ incoming = [n \in Names |-> <<>>]
    /\ held = {}
    /\ hkey = [t \in Envs |-> NoSni]
    /\ och = [t \in Envs |-> NoCh]
    /\ via = [t \in Envs |-> NoSni]
    /\ sent = [t \in Tokens |-> 0]
    /\ inflight = [i \in Ids |-> 0]

\* ------------------------------------------- A's application (channels.rs)
\* Outgoing::send up to the point where the envelope is in the queue.  send
\* borrows the Outgoing mutably, so one call is awaited at a time; a full
\* queue suspends the caller.
Submit(id, len) ==
    /\ senders
    /\ \A u \in Tokens : result[u] # "waiting"
    /\ \E t \in Tokens :
        /\ t <= calls
        /\ req[t] = NoReq
        /\ \A u \in 1..(t - 1) : req[u] # NoReq
        /\ req' = [req EXCEPT ![t] = [id |-> id, len |-> len]]
        /\ IF sess = "Dropped"
           THEN /\ result' = [result EXCEPT ![t] = "ForwardClosed"]
                /\ UNCHANGED outgoing
           ELSE /\ Len(outgoing) < OutQueueCap
                /\ outgoing' = Send(outgoing, t)
                /\ result' = [result EXCEPT ![t] = "waiting"]
    /\ UNCHANGED <<calls, host, channels, eos, run, reply, senders, sess, conn, callbacks, wmsg,
                   outRes, sent, inflight, cVars, iVars, bVars>>

\* The caller drops the future of a send it awaits: the reply receiver of
\* its envelope is gone, the envelope stays where it is.
Cancel(t) ==
    /\ result[t] = "waiting"
    /\ result' = [result EXCEPT ![t] = "Cancelled"]
    /\ UNCHANGED <<calls, host, channels, eos, run, req, reply, senders, outgoing, sess, conn,
                   callbacks, wmsg, outRes, sent, inflight, cVars, iVars, bVars>>

\* The application drops its Outgoing: every sender of the queue is gone.
DropOutgoing ==
    /\ senders
    /\ \A u \in Tokens : result[u] # "waiting"
    /\ senders' = FALSE
    /\ UNCHANGED <<calls, host, channels, eos, run, req, result, reply, outgoing, sess, conn,
                   callbacks, wmsg, outRes, sent, inflight, cVars, iVars, bVars>>

\* A slip of OutReturn: the map of reply senders outlives the call.
OutReturnKeepsMap(res, cb, rs) ==
    /\ result' = rs
    /\ callbacks' = cb
    /\ wmsg' = None
    /\ conn' = None
    /\ outRes' = res
    /\ sess' = "Sleeping"
    /\ inflight' = [i \in Ids |-> 0]
    /\ CloseClient(conn)

\* ------------------------------------- A's outbound session (node.rs)
\* serve_outgoing returns res: its locals are dropped, the map cb of reply
\* senders and the stream among them.  node::outgoing logs an Err and sleeps.
OutReturn(res, cb, rs) ==
    /\ result' = DropSenders(rs, Range(cb) \ {None})
    /\ callbacks' = EmptyMap
    /\ wmsg' = None
    /\ conn' = None
    /\ outRes' = res
    /\ sess' = "Sleeping"
    /\ inflight' = [i \in Ids |-> 0]
    /\ CloseClient(conn)

\* TcpStream::connect and connector.connect succeed; B's accept loop spawns
\* node::incoming for the socket and its TLS accept completes.
OutConnect(c) ==
    /\ run["A"] = "running" /\ sess = "Connecting"
    /\ run["B"] = "running" /\ c # Ext /\ owner[c] = "free"
    /\ \E node \in Nodes("A") :
        sni' = [sni EXCEPT ![c] = Dnsname(node)]
    /\ owner' = [owner EXCEPT ![c] = "A"]
    /\ copen' = [copen EXCEPT ![c] = TRUE]
    /\ ipc' = [ipc EXCEPT ![c] = "Accepted"]
    /\ sess' = "Select"
    /\ conn' = c
    /\ callbacks' = EmptyMap
    /\ outRes' = "none"
    /\ UNCHANGED <<calls, host, channels, eos, run, req, result, reply, senders, outgoing, wmsg,
                   sent, inflight, c2s, s2c, irx, ipend, iw, ires, npush, bVars>>

\* TcpStream::connect fails (Socket) or the TLS handshake fails (Tls).
OutConnectFail(err) ==
    /\ run["A"] = "running" /\ sess = "Connecting"
    /\ sess' = "Sleeping"
    /\ outRes' = err
    /\ UNCHANGED <<calls, host, channels, eos, run, req, result, reply, senders, outgoing, conn,
                   callbacks, wmsg, sent, inflight, cVars, iVars, bVars>>

\* node::outgoing: the retry interval has elapsed, the loop calls
\* serve_outgoing again, whatever the last call returned.
OutRetry ==
    /\ run["A"] = "running" /\ sess = "Sleeping" /\ Looping(outRes)
    /\ sess' = "Connecting"
    /\ UNCHANGED <<calls, host, channels, eos, run, req, result, reply, senders, outgoing, conn,
                   callbacks, wmsg, outRes, sent, inflight, cVars, iVars, bVars>>

\* Either::Left(Some(Callback { message, callback })): insert the callback;
\* write the message when the key was absent, else log the collision.  The
\* value insert returns is dropped.  Writer::write fails InvalidLen before
\* it suspends.
OutRecv ==
    /\ run["A"] = "running" /\ sess = "Select" /\ outgoing # <<>>
    /\ LET t == Head(outgoing)
           ins == Insert(callbacks, req[t].id, t)
           w == Write(req[t].len, req[t].id, t, MAX_LEN)
       IN /\ outgoing' = Tail(outgoing)
          /\ IF Absent(ins.old)
             THEN IF w.res = "Ok"
                  THEN /\ callbacks' = ins.map
                       /\ sess' = "Writing"
                       /\ wmsg' = t
                       /\ UNCHANGED <<result, conn, outRes, inflight, cVars,
                                      ipc, ires, npush>>
                  ELSE OutReturn(w.res, ins.map, result)
             ELSE /\ callbacks' = ins.map
                  /\ result' = DropSenders(result, {ins.old})
                  /\ UNCHANGED <<sess, wmsg, conn, outRes, inflight, cVars,
                                 ipc, ires, npush>>
    /\ UNCHANGED <<calls, host, channels, eos, run, req, reply, senders, sent, irx, ipend, iw, bVars>>

\* Either::Left(None): every sender of the queue is gone and the queue is
\* drained; serve_outgoing returns Ok(()).
OutClosed ==
    /\ run["A"] = "running" /\ sess = "Select"
    /\ outgoing = <<>> /\ ~senders
    /\ OutReturn("Ok", callbacks, result)
    /\ UNCHANGED <<calls, host, channels, eos, run, req, reply, senders, outgoing, sent, irx, ipend,
                   iw, bVars>>

\* B's end of connection c takes bytes off the stream: incoming_requests is
\* at reader.read while the session is in its select, or the session has
\* ended and the stream is dropped.
InReading(c) == ipc[c] = "Done" \/ (ipc[c] = "Select" /\ irx[c] = None)

\* writer.write and writer.flush complete: the frame is in the transport.
\* A frame written after the server dropped the stream is lost.
OutWritten ==
    /\ run["A"] = "running" /\ sess = "Writing"
    /\ Room(c2s[conn], req[wmsg].len, InReading(conn))
    /\ LET w == Write(req[wmsg].len, req[wmsg].id, wmsg, MAX_LEN)
       IN c2s' = [c2s EXCEPT ![conn] =
                    IF ipc[conn] = "Done" THEN <<>> ELSE Append(@, w.frame)]
    /\ sent' = [sent EXCEPT ![wmsg] = @ + 1]
    /\ inflight' = [inflight EXCEPT ![req[wmsg].id] = @ + 1]
    /\ sess' = "Select"
    /\ wmsg' = None
    /\ UNCHANGED <<calls, host, channels, eos, run, req, result, reply, senders, outgoing, conn,
                   callbacks, outRes, owner, sni, copen, s2c, iVars, bVars>>

\* writer.write or writer.flush fails with an I/O error.
OutWriteErr ==
    /\ run["A"] = "running" /\ sess = "Writing"
    /\ OutReturn("Io", callbacks, result)
    /\ UNCHANGED <<calls, host, channels, eos, run, req, reply, senders, outgoing, sent, irx, ipend,
                   iw, bVars>>

\* future::select polls the queue first: the reader's item is taken only
\* when outgoing.next() is pending.
OutQueuePending == outgoing = <<>> /\ senders

\* Either::Right(Some(message)): a frame that does not decode is an Err;
\* a response whose request_id has a callback is sent to it (a receiver
\* that is gone is ignored), any other is UnexpectedResponse.
OutResponse ==
    /\ run["A"] = "running" /\ sess = "Select" /\ OutQueuePending
    /\ s2c[conn] # <<>>
    /\ LET f == Head(s2c[conn])
           rd == Read(f, MAX_LEN)
           rem == Remove(callbacks, f.id)
       IN IF rd # "Ok"
          THEN OutReturn(rd, callbacks, result) /\ UNCHANGED reply
          ELSE IF rem.old # None
          THEN /\ callbacks' = rem.map
               /\ inflight' = [inflight EXCEPT ![f.id] = @ - 1]
               /\ s2c' = [s2c EXCEPT ![conn] = Tail(@)]
               /\ IF result[rem.old] = "waiting"
                  THEN /\ result' = [result EXCEPT ![rem.old] = "Ok"]
                       /\ reply' = [reply EXCEPT ![rem.old] = f]
                  ELSE UNCHANGED <<result, reply>>
               /\ UNCHANGED <<sess, wmsg, conn, outRes, owner, sni, copen,
                              c2s, ipc, ires, npush>>
          ELSE OutReturn("UnexpectedResponse", callbacks, result)
               /\ UNCHANGED reply
    /\ UNCHANGED <<calls, host, channels, eos, run, req, senders, outgoing, sent, irx, ipend, iw,
                   bVars>>

\* reader.read fails: the server closed the stream (read_u32 meets the end
\* of the stream) or the socket fails.
OutReadErr ==
    /\ run["A"] = "running" /\ sess = "Select" /\ OutQueuePending
    /\ s2c[conn] = <<>>
    /\ OutReturn("Io", callbacks, result)
    /\ UNCHANGED <<calls, host, channels, eos, run, req, reply, senders, outgoing, sent, irx, ipend,
                   iw, bVars>>

\* ----------------------------------- B's inbound sessions (node.rs)
\* A slip of Route: a name that is no key falls back to some sender of the
\* map.
RouteAny(server_name, keys) ==
    IF server_name = NoSni THEN [res |-> "Sni", key |-> NoSni]
    ELSE IF server_name \notin keys
    THEN [res |-> "Ok", key |-> CHOOSE k \in keys : TRUE]
    ELSE [res |-> "Ok", key |-> server_name]

\* serve_incoming: the SNI server name of the accepted stream selects the
\* sender of the incoming map; no name is Sni, no such key UnknownServerName.
Route(server_name, keys) ==
    IF server_name = NoSni THEN [res |-> "Sni", key |-> NoSni]
    ELSE IF server_name \notin keys
    THEN [res |-> "UnknownServerName", key |-> NoSni]
    ELSE [res |-> "Ok", key |-> server_name]

\* A slip of Incoming: the result of serve_incoming is passed on.
IncomingPropagates(res) == res

\* node::incoming maps every result of serve_incoming to Ok(()).
Incoming(res) == "Ok"

\* listen: try_for_each_concurrent ends with the first Err a connection
\* task returns, and Carrier::run returns what listen returns.
Joined(res) ==
    IF Incoming(res) # "Ok" /\ run["B"] = "running"
    THEN [run EXCEPT !["B"] = Incoming(res)]
    ELSE run

\* serve_incoming returns res: the stream, the pending reply receivers and
\* the request the reader holds are dropped.  The slot is free again once
\* the client has dropped its end too.
InReturn(c, res) ==
    /\ run' = Joined(res)
    /\ irx' = [irx EXCEPT ![c] = None]
    /\ ipend' = [ipend EXCEPT ![c] = {}]
    /\ iw' = [iw EXCEPT ![c] = NoFrame]
    /\ och' = [t \in Envs |-> IF t \in ipend[c] THEN Gone ELSE och[t]]
    /\ c2s' = [c2s EXCEPT ![c] = <<>>]
    /\ IF copen[c]
       THEN /\ ipc' = [ipc EXCEPT ![c] = "Done"]
            /\ ires' = [ires EXCEPT ![c] = res]
            /\ UNCHANGED <<owner, sni, npush, copen, s2c>>
       ELSE /\ ipc' = [ipc EXCEPT ![c] = "none"]
            /\ ires' = [ires EXCEPT ![c] = "none"]
            /\ owner' = [owner EXCEPT ![c] = "free"]
            /\ sni' = [sni EXCEPT ![c] = NoSni]
            /\ npush' = [npush EXCEPT ![c] = 0]
            /\ s2c' = [s2c EXCEPT ![c] = <<>>]
            /\ UNCHANGED copen

\* Lines 82-87: the session is authenticated, or ends with Sni or
\* UnknownServerName.
InAuth(c) ==
    /\ ipc[c] = "Accepted"
    /\ LET r == Route(sni[c], Nodes("B"))
       IN IF r.res = "Ok"
          THEN /\ ipc' = [ipc EXCEPT ![c] = "Select"]
               /\ UNCHANGED <<run, irx, ipend, iw, ires, npush, och, cVars>>
          ELSE InReturn(c, r.res)
    /\ UNCHANGED <<calls, host, channels, eos, aVars, incoming, held, hkey, via>>

\* incoming.send(message) of incoming_requests: the envelope of request t
\* enters the queue of the session's peer, its receiver the pending set.
Push(c, t) ==
    LET key == Route(sni[c], Nodes("B")).key
    IN /\ Len(incoming[key]) < QueueCap
       /\ incoming' = [incoming EXCEPT ![key] = Send(@, t)]
       /\ ipend' = [ipend EXCEPT ![c] = @ \cup {t}]
       /\ och' = [och EXCEPT ![t] = [st |-> "open", id |-> 0, len |-> 0]]
       /\ via' = [via EXCEPT ![t] = sni[c]]
       /\ npush' = [npush EXCEPT ![c] = IF @ < MaxReqs THEN @ + 1 ELSE @]
       /\ irx' = [irx EXCEPT ![c] = None]

QueueFull(c) ==
    Len(incoming[Route(sni[c], Nodes("B")).key]) >= QueueCap

\* Either::Left(Some(rx)): incoming_requests read a frame.  A frame that is
\* no request ends the session; a request is pushed into the incoming queue
\* (the stream stays suspended in send while the queue is full).
InRead(c) ==
    /\ ipc[c] = "Select" /\ irx[c] = None /\ c2s[c] # <<>>
    /\ LET f == Head(c2s[c])
           rd == Read(f, MAX_LEN)
       IN IF rd # "Ok"
          THEN InReturn(c, rd) /\ UNCHANGED <<incoming, via>>
          ELSE /\ c2s' = [c2s EXCEPT ![c] = Tail(@)]
               /\ IF QueueFull(c)
                  THEN /\ irx' = [irx EXCEPT ![c] = f.t]
                       /\ UNCHANGED <<incoming, ipend, och, via, npush>>
                  ELSE Push(c, f.t)
               /\ UNCHANGED <<run, ipc, iw, ires, owner, sni, copen, s2c>>
    /\ UNCHANGED <<calls, host, channels, eos, aVars, held, hkey>>

\* incoming.send completes once the queue has room.
InPush(c) ==
    /\ ipc[c] = "Select" /\ irx[c] # None
    /\ Push(c, irx[c])
    /\ UNCHANGED <<calls, host, channels, eos, run, aVars, cVars, ipc, iw, ires, held, hkey>>

\* reader.read fails: the client closed the stream or the socket fails.
InReadErr(c) ==
    /\ ipc[c] = "Select" /\ irx[c] = None /\ c2s[c] = <<>>
    /\ InReturn(c, "Io")
    /\ UNCHANGED <<calls, host, channels, eos, aVars, incoming, held, hkey, via>>

\* future::select polls incoming_requests first: a reply is taken only
\* while the stream is pending (no frame to read, or suspended in send).
InStreamPending(c) ==
    \/ irx[c] = None /\ c2s[c] = <<>> /\ copen[c]
    \/ irx[c] # None /\ QueueFull(c)

\* A slip of InReply: a canceled receiver ends the session like a failed
\* write does.
InReplyCancelEnds(c, t) ==
    /\ ipc[c] = "Select" /\ InStreamPending(c)
    /\ t \in ipend[c] /\ och[t].st \in {"sent", "canceled"}
    /\ IF och[t].st = "sent"
       THEN /\ ipend' = [ipend EXCEPT ![c] = @ \ {t}]
            /\ och' = [och EXCEPT ![t] = Gone]
            /\ ipc' = [ipc EXCEPT ![c] = "Writing"]
            /\ iw' = [iw EXCEPT ![c] =
                        Write(och[t].len, och[t].id, t, MAX_LEN).frame]
            /\ UNCHANGED <<run, cVars, irx, ires, npush>>
       ELSE InReturn(c, "Canceled")
    /\ UNCHANGED <<calls, host, channels, eos, aVars, incoming, held, hkey, via>>

\* Either::Right(Some(callback)): a reply is written as the application
\* gave it; a canceled receiver is skipped.
InReply(c, t) ==
    /\ ipc[c] = "Select" /\ InStreamPending(c)
    /\ t \in ipend[c] /\ och[t].st \in {"sent", "canceled"}
    /\ ipend' = [ipend EXCEPT ![c] = @ \ {t}]
    /\ och' = [och EXCEPT ![t] = Gone]
    /\ IF och[t].st = "sent"
       THEN /\ ipc' = [ipc EXCEPT ![c] = "Writing"]
            /\ iw' = [iw EXCEPT ![c] =
                        Write(och[t].len, och[t].id, t, MAX_LEN).frame]
       ELSE UNCHANGED <<ipc, iw>>
    /\ UNCHANGED <<calls, host, channels, eos, run, aVars, cVars, irx, ires, npush, incoming,
                   held, hkey, via>>

\* The client's end of connection c takes bytes off the stream: A's
\* incoming_responses is at reader.read while serve_outgoing is in its select
\* with outgoing.next() pending; a foreign client reads when it likes; a
\* dropped stream takes whatever is written.
OutReading(c) ==
    \/ ~copen[c] \/ owner[c] # "A"
    \/ conn = c /\ sess = "Select" /\ OutQueuePending

\* writer.write and writer.flush of the response complete.  A frame written
\* after the client dropped the stream is lost.
InWritten(c) ==
    /\ ipc[c] = "Writing"
    /\ Room(s2c[c], iw[c].got, OutReading(c))
    /\ s2c' = [s2c EXCEPT ![c] = IF copen[c] THEN Append(@, iw[c]) ELSE <<>>]
    /\ ipc' = [ipc EXCEPT ![c] = "Select"]
    /\ iw' = [iw EXCEPT ![c] = NoFrame]
    /\ UNCHANGED <<calls, host, channels, eos, run, aVars, owner, sni, copen, c2s, irx, ipend,
                   ires, npush, bVars>>

\* writer.write or writer.flush of the response fails.
InWriteErr(c) ==
    /\ ipc[c] = "Writing"
    /\ InReturn(c, "Io")
    /\ UNCHANGED <<calls, host, channels, eos, aVars, incoming, held, hkey, via>>

\* Either::Right((None, _)) => {}: incoming_requests is pending and the
\* FuturesUnordered of reply receivers is empty, so callbacks.next() is
\* ready with None; select returns at once and the loop goes round without
\* the task having suspended.
InIdle(c) ==
    /\ ipc[c] = "Select" /\ InStreamPending(c)
    /\ ipend[c] = {}
    /\ ipc' = [ipc EXCEPT ![c] = "Spinning"]
    /\ UNCHANGED <<calls, host, channels, eos, run, aVars, cVars, irx, ipend, iw, ires,
                   npush, bVars>>

\* ------------------------------------------- B's application (channels.rs)
\* The senders of B's incoming queues: the map Carrier holds until run
\* returns, and the clone of it every connection task holds.
SendersAlive ==
    \/ run["B"] \in {"init", "running"}
    \/ \E c \in Conns : ipc[c] \in {"Tcp", "Accepted", "Select", "Writing"}

\* rx.next() is ready: with an envelope, or with None once the queue is
\* empty and every sender is gone.
Ready(n) == incoming[n] # <<>> \/ ~SendersAlive

\* future::select_all polls the futures in the order of channels.iter_mut()
\* and completes with the first one that is ready.
FirstReady(n) ==
    \E i \in DOMAIN channels :
        /\ channels[i] = n /\ Ready(n)
        /\ \A j \in 1..(i - 1) : ~Ready(channels[j])

\* Incoming::recv completes with what the first ready queue yields:
\* Some((node, envelope)), or None for a closed and empty queue.
Recv(n) ==
    /\ FirstReady(n)
    /\ IF incoming[n] # <<>>
       THEN /\ incoming' = [incoming EXCEPT ![n] = Tail(@)]
            /\ held' = held \cup {Head(incoming[n])}
            /\ hkey' = [hkey EXCEPT ![Head(incoming[n])] = n]
            /\ UNCHANGED eos
       ELSE /\ eos' = TRUE
            /\ UNCHANGED <<incoming, held, hkey>>
    /\ UNCHANGED <<calls, host, channels, run, aVars, cVars, iVars, och, via>>

\* The application sends a response with request_id id and encoded length
\* len into the envelope's reply channel; the send is lost when the receiver
\* is gone.
ReplyLen(t, id, len) ==
    /\ t \in held
    /\ held' = held \ {t}
    /\ och' = [och EXCEPT ![t] =
                 IF @.st = "open"
                 THEN [st |-> "sent", id |-> id, len |-> len] ELSE @]
    /\ UNCHANGED <<calls, host, channels, eos, run, aVars, cVars, iVars, incoming, hkey,
                   via>>

Reply(t, id) == ReplyLen(t, id, RespLen)

\* The application drops the envelope without answering.
DropReply(t) ==
    /\ t \in held
    /\ held' = held \ {t}
    /\ och' = [och EXCEPT ![t] =
                 IF @.st = "open" THEN [st |-> "canceled", id |-> 0, len |-> 0]
                 ELSE @]
    /\ UNCHANGED <<calls, host, channels, eos, run, aVars, cVars, iVars, incoming, hkey,
                   via>>

\* ------------------------------------------------------ foreign clients
\* A client that is not A's outbound session connects to B's listener and
\* presents server name name (NoSni: none).  listen spawns node::incoming.
ExtConnect(name) ==
    /\ run["B"] = "running" /\ owner[Ext] = "free"
    /\ owner' = [owner EXCEPT ![Ext] = "ext"]
    /\ sni' = [sni EXCEPT ![Ext] = name]
    /\ copen' = [copen EXCEPT ![Ext] = TRUE]
    /\ ipc' = [ipc EXCEPT ![Ext] = "Tcp"]
    /\ UNCHANGED <<calls, host, channels, eos, run, aVars, c2s, s2c, irx, ipend, iw, ires, npush,
                   bVars>>

\* The client writes a frame that is no NodeRequest.
ExtWrite(f) ==
    /\ owner[Ext] = "ext" /\ copen[Ext]
    /\ ipc[Ext] \in {"Accepted", "Select"}
    /\ c2s[Ext] = <<>>
    /\ c2s' = [c2s EXCEPT ![Ext] = <<f>>]
    /\ UNCHANGED <<calls, host, channels, eos, run, aVars, owner, sni, copen, s2c, iVars, bVars>>

ExtId == CHOOSE i \in Ids : TRUE       \* the request_id the client uses

\* The client writes a well-formed NodeRequest with request_id id, once the
\* envelope of its previous request is gone.
ExtWriteReq(id) ==
    /\ owner[Ext] = "ext" /\ copen[Ext]
    /\ ipc[Ext] \in {"Accepted", "Select"}
    /\ c2s[Ext] = <<>> /\ irx[Ext] # ExtTok
    /\ och[ExtTok].st \in {"none", "gone"} /\ ExtTok \notin held
    /\ \A n \in Names : ExtTok \notin Range(incoming[n])
    /\ c2s' = [c2s EXCEPT ![Ext] = <<Write(RespLen, id, ExtTok, MAX_LEN).frame>>]
    /\ UNCHANGED <<calls, host, channels, eos, run, aVars, owner, sni, copen, s2c,
                   iVars, bVars>>

\* The client reads a response from its connection.
ExtRead ==
    /\ owner[Ext] = "ext" /\ copen[Ext] /\ s2c[Ext] # <<>>
    /\ s2c' = [s2c EXCEPT ![Ext] = Tail(@)]
    /\ UNCHANGED <<calls, host, channels, eos, run, aVars, owner, sni, copen, c2s,
                   iVars, bVars>>

\* The client closes its connection.
ExtClose ==
    /\ owner[Ext] = "ext" /\ copen[Ext]
    /\ CloseClient(Ext)
    /\ UNCHANGED <<calls, host, channels, eos, run, aVars, irx, ipend, iw, bVars>>

\* acceptor.accept(sock) of serve_incoming (line 81) succeeds.
InAccept(c) ==
    /\ ipc[c] = "Tcp"
    /\ ipc' = [ipc EXCEPT ![c] = "Accepted"]
    /\ UNCHANGED <<calls, host, channels, eos, run, aVars, cVars, irx, ipend, iw, ires, npush,
                   bVars>>

\* acceptor.accept(sock) fails: Error::Tls.
InAcceptFail(c) ==
    /\ ipc[c] = "Tcp"
    /\ InReturn(c, "Tls")
    /\ UNCHANGED <<calls, host, channels, eos, aVars, incoming, held, hkey, via>>

\* ------------------------------------------------ Carrier::run (lib.rs)
\* tls::init succeeded; the accept loop and the outbound sessions run.
RunStart(p) ==
    /\ run[p] = "init"
    /\ run' = [run EXCEPT ![p] = "running"]
    /\ UNCHANGED <<calls, host, channels, eos, aVars, cVars, iVars, bVars>>

\* Carrier::run returns an Err: tls::init failed (TlsInit), or listen
\* failed to bind or to accept (Socket).  The futures of run are dropped:
\* the accept loop, and the outbound session with its stream, its map of
\* reply senders and the receiver of the outgoing queue.  The connection
\* tasks listen spawned go on.
RunFail(p, err) ==
    /\ \/ run[p] = "init" /\ err = "TlsInit"
       \/ run[p] = "running" /\ err = "Socket"
    /\ run' = [run EXCEPT ![p] = err]
    /\ IF p = "A"
       THEN /\ result' = DropSenders(result,
                            (Range(callbacks) \cup Range(outgoing)) \ {None})
            /\ outgoing' = <<>>
            /\ callbacks' = EmptyMap
            /\ wmsg' = None
            /\ conn' = None
            /\ sess' = "Dropped"
            /\ inflight' = [i \in Ids |-> 0]
            /\ IF conn # None
               THEN CloseClient(conn)
               ELSE UNCHANGED <<cVars, ipc, ires, npush>>
            /\ UNCHANGED <<req, reply, senders, outRes, sent>>
       ELSE UNCHANGED <<aVars, cVars, ipc, ires, npush>>
    /\ UNCHANGED <<calls, host, channels, eos, irx, ipend, iw, bVars>>

\* The runs of the two sessions: the application's calls, A's outbound
\* session, B's inbound sessions of A's connections, B's application.
Init == Start(MaxReqs, OnePeer)

Next ==
    \/ \E id \in Ids, len \in Lens : Submit(id, len)
    \/ \E t \in Tokens : Cancel(t)
    \/ DropOutgoing
    \/ \E c \in Conns : OutConnect(c)
    \/ \E e \in {"Socket", "Tls"} : OutConnectFail(e)
    \/ OutRetry
    \/ OutRecv
    \/ OutClosed
    \/ OutWritten
    \/ OutWriteErr
    \/ OutResponse
    \/ OutReadErr
    \/ \E c \in Conns : InAuth(c)
    \/ \E c \in Conns : InRead(c)
    \/ \E c \in Conns : InPush(c)
    \/ \E c \in Conns : InReadErr(c)
    \/ \E c \in Conns, t \in Tokens : InReply(c, t)
    \/ \E c \in Conns : InWritten(c)
    \/ \E c \in Conns : InWriteErr(c)
    \/ \E n \in Names : Recv(n)
    \/ \E t \in Tokens, id \in Ids : Reply(t, id)
    \/ \E t \in Tokens : DropReply(t)
    \/ \E p \in Procs : RunStart(p)

Spec == Init /\ [][Next]_vars

\* The retry sleep of node::outgoing ends.
FairSpec == Spec /\ WF_vars(OutRetry)

\* The runs of the two carriers: calls awaited one after the other, foreign
\* clients at B's listener, Carrier::run failing.
InitRun == Start(RunReqs, OnePeer)

NextRun ==
    \/ \E id \in Ids, len \in Lens : Submit(id, len)
    \/ \E c \in Conns : OutConnect(c)
    \/ \E e \in {"Socket", "Tls"} : OutConnectFail(e)
    \/ OutRetry
    \/ OutRecv
    \/ OutWritten
    \/ OutWriteErr
    \/ OutResponse
    \/ OutReadErr
    \/ \E c \in Conns : InAuth(c)
    \/ \E c \in Conns : InRead(c)
    \/ \E c \in Conns : InPush(c)
    \/ \E c \in Conns : InReadErr(c)
    \/ \E c \in Conns, t \in Tokens : InReply(c, t)
    \/ \E c \in Conns : InWritten(c)
    \/ \E c \in Conns : InWriteErr(c)
    \/ \E n \in Names : Recv(n)
    \/ \E t \in Tokens, id \in Ids : Reply(t, id)
    \/ \E t \in Tokens : DropReply(t)
    \/ \E p \in Procs : RunStart(p)
    \/ \E name \in Nodes("B") \cup {Stranger, NoSni} : ExtConnect(name)
    \/ \E f \in BadFrames : ExtWrite(f)
    \/ ExtClose
    \/ \E c \in Conns : InAccept(c)
    \/ \E c \in Conns : InAcceptFail(c)
    \/ \E p \in Procs, e \in {"TlsInit", "Socket"} : RunFail(p, e)

SpecRun == InitRun /\ [][NextRun]_vars

\* The runs with a live peer: no socket fails, nobody cancels or closes, the
\* requests fit a frame and carry pairwise distinct ids, and B's application
\* answers every envelope with the request_id of its request (examples/node.rs).
SubmitDistinct(id) ==
    /\ \A u \in Tokens : req[u] = NoReq \/ req[u].id # id
    /\ \E len \in Lens : len <= MAX_LEN /\ Submit(id, len)

Echo(t) == Reply(t, req[t].id)

\* reader.read of incoming_responses meets the end of the stream: B's
\* session of the connection has ended.
OutReadEof == conn # None /\ ipc[conn] = "Done" /\ OutReadErr

\* The runs of the codec: requests of the lengths around the byte borders of
\* the prefix and around MAX_LEN, answered by B's application, and a foreign
\* client that writes frames of its own making.
FrameLens == {1, 255, 256, 65536, MAX_LEN, MAX_LEN + 1}
CodecFrames ==
    BadFrames \cup
    { [pre |-> <<1, 0, 0, 0>>, got |-> 0, dec |-> TRUE, id |-> 0, t |-> 0] }

NextCodec ==
    \/ \E id \in Ids, len \in FrameLens : Submit(id, len)
    \/ \E c \in Conns : OutConnect(c)
    \/ OutRetry
    \/ OutRecv
    \/ OutWritten
    \/ OutResponse
    \/ OutReadEof
    \/ \E c \in Conns : InAuth(c)
    \/ \E c \in Conns : InRead(c)
    \/ \E c \in Conns, t \in Tokens : InReply(c, t)
    \/ \E c \in Conns : InWritten(c)
    \/ \E n \in Names : Recv(n)
    \/ \E t \in Tokens : Echo(t)
    \/ \E p \in Procs : RunStart(p)
    \/ \E name \in Nodes("B") : ExtConnect(name)
    \/ \E c \in Conns : InAccept(c)
    \/ \E f \in CodecFrames : ExtWrite(f)
    \/ ExtClose

SpecCodec == Init /\ [][NextCodec]_vars

\* The application awaits every call before it makes the next one; the
\* request_id may be one an earlier call used.
SubmitAwaited(id) ==
    /\ \A u \in Tokens : result[u] # "waiting"
    /\ \E len \in Lens : len <= MAX_LEN /\ Submit(id, len)

NextSeq ==
    \/ \E id \in Ids : SubmitAwaited(id)
    \/ \E c \in Conns : OutConnect(c)
    \/ OutRetry
    \/ OutRecv
    \/ OutWritten
    \/ OutResponse
    \/ OutReadEof
    \/ \E c \in Conns : InAuth(c)
    \/ \E c \in Conns : InRead(c)
    \/ \E c \in Conns, t \in Tokens : InReply(c, t)
    \/ \E c \in Conns : InWritten(c)
    \/ \E n \in Names : Recv(n)
    \/ \E t \in Tokens : Echo(t)
    \/ \E p \in Procs : RunStart(p)

SpecSeq == Init /\ [][NextSeq]_vars

\* The runs on a single-threaded cooperative executor, without failures: a
\* task runs from one suspension to the next, and no other task (nor the
\* I/O driver that would make a read ready) runs while a task goes on
\* without suspending.
AllSuspended == \A c \in Conns : ipc[c] # "Spinning"

NextCoop ==
    \/ /\ AllSuspended
       /\ \/ \E id \in Ids : SubmitDistinct(id)
          \/ \E c \in Conns : OutConnect(c)
          \/ OutRetry
          \/ OutRecv
          \/ OutWritten
          \/ OutResponse
          \/ OutReadEof
          \/ \E c \in Conns : InAuth(c)
          \/ \E c \in Conns : InRead(c)
          \/ \E c \in Conns, t \in Tokens : InReply(c, t)
          \/ \E c \in Conns : InWritten(c)
          \/ \E n \in Names : Recv(n)
          \/ \E t \in Tokens : Echo(t)
          \/ \E p \in Procs : RunStart(p)
    \/ \E c \in Conns : InIdle(c)

SpecCoop == Init /\ [][NextCoop]_vars

\* The runs without failures in which requests and responses may be longer
\* than a transport buffer: A's application may give up a call it awaits
\* (a timeout around send) and go on with the next one, B's application
\* answers every envelope with the request_id of its request.  A
\* NodeResponse consists of the request_id, so it is as long as the request
\* at most.
FlowLens == {1, MAX_LEN}

Answer(t) ==
    \E len \in FlowLens : len <= req[t].len /\ ReplyLen(t, req[t].id, len)

NextFlow ==
    \/ \E id \in Ids, len \in FlowLens : Submit(id, len)
    \/ \E t \in Tokens : Cancel(t)
    \/ \E c \in Conns : OutConnect(c)
    \/ OutRetry
    \/ OutRecv
    \/ OutWritten
    \/ OutResponse
    \/ OutReadEof
    \/ \E c \in Conns : InAuth(c)
    \/ \E c \in Conns : InRead(c)
    \/ \E c \in Conns : InPush(c)
    \/ \E c \in Conns, t \in Tokens : InReply(c, t)
    \/ \E c \in Conns : InWritten(c)
    \/ \E n \in Names : Recv(n)
    \/ \E t \in Tokens : Answer(t)
    \/ \E p \in Procs : RunStart(p)

SpecFlow == Init /\ [][NextFlow]_vars

NextLive ==
    \/ \E id \in Ids : SubmitDistinct(id)
    \/ \E c \in Conns : OutConnect(c)
    \/ OutRetry
    \/ OutRecv
    \/ OutWritten
    \/ OutResponse
    \/ OutReadEof
    \/ \E c \in Conns : InAuth(c)
    \/ \E c \in Conns : InRead(c)
    \/ \E c \in Conns, t \in Tokens : InReply(c, t)
    \/ \E c \in Conns : InWritten(c)
    \/ \E n \in Names : Recv(n)
    \/ \E t \in Tokens : Echo(t)
    \/ \E p \in Procs : RunStart(p)

SpecLive == Init /\ [][NextLive]_vars

\* Every step of a live run that can be taken is taken eventually.
FairLive == SpecLive /\ WF_vars(NextLive)

\* The runs of a node B whose directory has two peers: A's outbound session,
\* a client that presents the name of a peer and sends requests, B's
\* sessions and application, B's Carrier::run failing.
InitMesh == Start(MeshReqs, TwoPeers)

NextMesh ==
    \/ \E id \in Ids : SubmitDistinct(id)
    \/ \E c \in Conns : OutConnect(c)
    \/ OutRecv
    \/ OutWritten
    \/ OutResponse
    \/ \E c \in Conns : InAuth(c)
    \/ \E c \in Conns : InRead(c)
    \/ \E c \in Conns : InPush(c)
    \/ \E c \in Conns : InReadErr(c)
    \/ \E c \in Conns, t \in Envs : InReply(c, t)
    \/ \E c \in Conns : InWritten(c)
    \/ \E n \in Names : Recv(n)
    \/ \E t \in Tokens : Echo(t)
    \/ Reply(ExtTok, ExtId)
    \/ \E t \in Envs : DropReply(t)
    \/ \E p \in Procs : RunStart(p)
    \/ \E name \in Names : ExtConnect(name)
    \/ \E c \in Conns : InAccept(c)
    \/ ExtWriteReq(ExtId)
    \/ ExtRead
    \/ RunFail("B", "Socket")

SpecMesh == InitMesh /\ [][NextMesh]_vars

\* B's application keeps calling Incoming::recv.
FairMesh == SpecMesh /\ WF_vars(\E n \in Names : Recv(n))

\* ============================================================== claims
Established == sess \in {"Select", "Writing"}

\* serve_outgoing takes from the queue an envelope whose request_id keys an
\* entry of the map.
CollisionStep ==
    /\ sess = "Select" /\ outgoing # <<>>
    /\ callbacks[req[Head(outgoing)].id] # None
    /\ outgoing' = Tail(outgoing)

\* serve_outgoing takes from the queue an envelope whose encoded length
\* exceeds MAX_LEN and whose request_id is not pending.
OversizeStep ==
    /\ sess = "Select" /\ outgoing # <<>>
    /\ callbacks[req[Head(outgoing)].id] = None
    /\ req[Head(outgoing)].len > MAX_LEN
    /\ outgoing' = Tail(outgoing)

\* C1: every Outgoing::send that returned Ok(reply) returned a reply whose
\* request_id is the request_id of the request it submitted.
C1_ReplyHasRequestId ==
    \A t \in Tokens : result[t] = "Ok" => reply[t].id = req[t].id

\* A call returned Ok while the session holds the callback of another
\* request.
C1_Witness ==
    \E t, u \in Tokens :
        /\ result[t] = "Ok" /\ u # t /\ req[u] # NoReq
        /\ sess = "Select" /\ callbacks[req[u].id] = u

\* C2: at a collision the entry of the pending request is not overwritten
\* and the reply sender of the colliding envelope is dropped: its caller,
\* when it still waits, gets ReturnClosed.
C2_CollisionKeepsFirst ==
    [][CollisionStep =>
        /\ callbacks' = callbacks
        /\ result[Head(outgoing)] = "waiting"
              => result'[Head(outgoing)] = "ReturnClosed"]_vars

\* C3: on one connection at most one unanswered request frame carries a
\* given request_id: a colliding request is never written.
C3_OneFramePerId == \A i \in Ids : inflight[i] \in {0, 1}

\* Two requests with the same id were taken by the session, the first was
\* written and is unanswered, the second was not written.
C3_Witness ==
    \E t, u \in Tokens :
        /\ t # u /\ req[t] # NoReq /\ req[t].id = req[u].id
        /\ sent[t] = 1 /\ sent[u] = 0
        /\ sess = "Select" /\ callbacks[req[u].id] = u
        /\ inflight[req[u].id] = 1

\* C4: taking an oversize request from the queue writes nothing and leaves
\* the session established on the same connection with the pending entries
\* of the other requests.
C4_OversizeKeepsConnection ==
    [][OversizeStep =>
        /\ Established' /\ conn' = conn /\ c2s' = c2s
        /\ \A i \in Ids : callbacks[i] # None => callbacks'[i] = callbacks[i]
      ]_vars

\* C5: while the outbound session holds no connection no call waits for a
\* request the session took (a call that still waits has its envelope in the
\* queue), the map is empty, and no request is written twice.
C5_TornDownResolves ==
    /\ ~Established =>
          /\ callbacks = EmptyMap
          /\ \A t \in Tokens : result[t] = "waiting" => t \in Range(outgoing)
    /\ \A t \in Tokens : sent[t] <= 1

\* A connection was torn down by an I/O error while a written request
\* awaited its response: the call returned ReturnClosed.
C5_Witness ==
    \E t \in Tokens :
        /\ sess = "Sleeping" /\ outRes = "Io"
        /\ sent[t] = 1 /\ result[t] = "ReturnClosed"

\* C6: two nodes with distinct peer identifiers, each listing the other: B's
\* inbound session accepts the connection A's outbound session opened; it
\* does not end it for the server name A presented.
C6_DistinctPeersAccepted ==
    \A c \in Conns :
        (owner[c] = "A" /\ host["A"] # host["B"])
            => ires[c] \notin {"Sni", "UnknownServerName"}

\* C7: the outbound session never gives up and loses no queued request:
\* every sleep after a serve_outgoing call is followed by a new connection
\* attempt; while no connection is established the queue only grows; an
\* envelope leaves the queue only in an established session, and the first
\* one a new connection takes is written when it fits a frame.
C7_RetriesAndKeepsQueue ==
    /\ (sess = "Sleeping") ~> (sess = "Connecting")
    /\ [][~Established =>
            \/ outgoing' = outgoing
            \/ \E t \in Tokens : outgoing' = Append(outgoing, t)]_vars
    /\ [][(outgoing # <<>> /\ outgoing' = Tail(outgoing)) =>
            /\ sess = "Select"
            /\ (callbacks = EmptyMap /\ req[Head(outgoing)].len <= MAX_LEN)
                  => (sess' = "Writing" /\ wmsg' = Head(outgoing))]_vars

\* After a failed connection attempt or a torn-down connection the session
\* is connecting again, with a request that waited in the queue meanwhile.
C7_Witness ==
    /\ sess = "Connecting" /\ outRes \in {"Socket", "Tls", "Io"}
    /\ outgoing # <<>>
    /\ \E t \in Tokens : sent[t] = 1 /\ result[t] = "ReturnClosed"

\* C8: once serve_outgoing returned Ok(()) for a closed queue the session
\* makes no further connection attempt.
C8_ClosedQueueNoRestart ==
    [][(sess = "Sleeping" /\ outRes = "Ok") => sess' = "Sleeping"]_vars

\* C9: Carrier::run returns only for a TLS initialisation error or a
\* listener error; a step that ends one connection task of B leaves run,
\* the other connections and A's session as they are, and a step that ends
\* A's connection leaves run and the connections of other clients as they
\* are.
C9_FailureEndsOneConnection ==
    /\ [](\A p \in Procs : run[p] \in {"init", "running", "TlsInit", "Socket"})
    /\ [][\A c \in Conns :
            (ipc[c] \in {"Tcp", "Accepted", "Select", "Writing"}
                /\ ipc'[c] \in {"none", "Done"})
            => /\ run' = run
               /\ aVars' = aVars
               /\ \A d \in Conns \ {c} :
                    /\ ipc'[d] = ipc[d] /\ ipend'[d] = ipend[d]
                    /\ owner'[d] = owner[d] /\ copen'[d] = copen[d]
                    /\ c2s'[d] = c2s[d] /\ s2c'[d] = s2c[d]]_vars
    /\ [][(Established /\ ~Established' /\ run'["A"] = run["A"]) =>
            /\ run' = run
            /\ \A d \in Conns \ {conn} :
                    /\ ipc'[d] = ipc[d] /\ ipend'[d] = ipend[d]
                    /\ owner'[d] = owner[d] /\ copen'[d] = copen[d]
                    /\ c2s'[d] = c2s[d] /\ s2c'[d] = s2c[d]]_vars

\* The connection of a foreign client ended with an error while both
\* carriers run and A's session holds a pending request on its connection.
C9_Witness ==
    /\ ires[Ext] \in {"Tls", "Sni", "UnknownServerName", "InvalidLen", "Io",
                       "Decode"}
    /\ run["A"] = "running" /\ run["B"] = "running"
    /\ sess = "Select" /\ callbacks # EmptyMap

\* C10: a connection that presented no server name, or one that is no key
\* of B's directory, pushed no envelope; every envelope in the incoming
\* queue of peer n, and every envelope Incoming::recv yielded for n, was
\* pushed by a connection that presented n.
C10_OnlyNamedPeerPushes ==
    /\ \A c \in Conns :
          (owner[c] # "free" /\ sni[c] \notin Nodes("B")) => npush[c] = 0
    /\ \A n \in Names : \A t \in Range(incoming[n]) : via[t] = n
    /\ \A t \in held : via[t] = hkey[t]

\* A connection was ended for its missing or unknown server name while an
\* envelope of another connection is in an incoming queue.
C10_Witness ==
    /\ \E c \in Conns : ires[c] \in {"Sni", "UnknownServerName"} /\ npush[c] = 0
    /\ \E n \in Names : incoming[n] # <<>>

\* C11: request frames are written in the order their envelopes were
\* submitted: when the frame of an envelope is written, no envelope that was
\* submitted after it has been written, and the frames a connection carries
\* are in submission order.
C11_WrittenInSubmissionOrder ==
    /\ [][\A x, y \in Tokens :
            (x < y /\ sent'[x] > sent[x]) => sent[y] = 0]_vars
    /\ [](\A c \in Conns : \A i, j \in DOMAIN c2s[c] :
            i < j => c2s[c][i].t <= c2s[c][j].t)

\* Two envelopes were submitted to the queue and both were written on the
\* connection the session holds: both are pending in its map.
C11_Witness ==
    /\ sess = "Select" /\ sent = [t \in Tokens |-> 1]
    /\ \A t \in Tokens : req[t] # NoReq /\ callbacks[req[t].id] = t

\* C12: in a run with a live peer every send resolves with Ok, with the
\* reply B's application gave to its own request, and no reply is delivered
\* twice: no send ends with an error or with the reply of another submission.
C12_EverySendGetsItsReply ==
    \A t \in Tokens :
        /\ result[t] \in {"none", "waiting", "Ok"}
        /\ result[t] = "Ok" => (reply[t].t = t /\ reply[t].id = req[t].id)

\* C13: Incoming::recv starves no peer: while B's queues are open and the
\* application keeps calling recv, an envelope that waits in the queue of
\* peer n is eventually yielded.
C13_NoPeerStarved ==
    \A n \in Names : \A t \in Tokens :
        (t \in Range(incoming[n]) /\ SendersAlive)
            ~> (hkey[t] = n \/ ~SendersAlive)

\* C14: Incoming::recv returns None only when every queue of B is closed
\* and none still holds an undelivered envelope.
C14_NoneOnlyWhenAllClosed ==
    [][(~eos /\ eos') =>
        /\ ~SendersAlive
        /\ \A n \in Nodes("B") : incoming[n] = <<>>]_vars

\* The outbound session takes a well-formed response whose request_id is
\* no key of its map.
UnexpectedStep ==
    /\ sess = "Select" /\ OutQueuePending /\ s2c[conn] # <<>>
    /\ Read(Head(s2c[conn]), MAX_LEN) = "Ok"
    /\ callbacks[Head(s2c[conn]).id] = None
    /\ <<sess, callbacks, outRes>>' # <<sess, callbacks, outRes>>

C16_RepliesCarryReceivedIds ==
    \A c \in Conns :
        ipc[c] = "Writing" =>
            \E t \in Tokens : via[t] # NoSni /\ req[t].id = iw[c].id


\* C17: on an outbound connection, delivering a response removes its
\* request_id from the pending map and the map holds no callback twice, so
\* a request_id of a resolved request can be used again; once every call of
\* a sequence of awaited calls has returned, all of them returned Ok and the
\* pending map is empty.
C17_AwaitedCallsSucceedMapEmpty ==
    /\ \A t \in Tokens : result[t] = "Ok" => callbacks[req[t].id] # t
    /\ \A i, j \in Ids : (i # j /\ callbacks[i] # None) => callbacks[i] # callbacks[j]
    /\ (\A t \in Tokens : result[t] \notin {"none", "waiting"}) =>
           /\ \A t \in Tokens : result[t] = "Ok"
           /\ callbacks = EmptyMap


\* C18: when the application dropped an envelope's reply sender without a
\* reply, the inbound session takes the entry out of its pending set, writes
\* no frame for it and stays in its loop with its stream of requests and its
\* other pending replies untouched.  (The entry can also leave the set
\* because reader.read failed at that moment or the closed connection's
\* session ended; that is no handling of the canceled reply.)
SkipsCanceled(c, t) ==
    /\ ipc[c] = "Select" /\ t \in ipend[c] /\ och[t].st = "canceled"
    /\ t \notin ipend'[c]

C18_CanceledReplyOmitted ==
    [][\A c \in Conns : \A t \in Envs :
          SkipsCanceled(c, t) =>
              \/ /\ ipc'[c] = "Select"
                 /\ ipend'[c] = ipend[c] \ {t}
                 /\ iw'[c] = NoFrame /\ s2c' = s2c
                 /\ c2s' = c2s /\ irx' = irx /\ run' = run
                 /\ \A u \in Envs \ {t} : och'[u] = och[u]
              \/ ires'[c] \in {"Io", "InvalidLen", "Decode"}
              \/ ipc'[c] = "none"]_vars

\* The session skipped the canceled reply of t (no response for t was ever
\* written: the callbacks of both requests are still in A's map of the one
\* connection) and goes on with the reply of u.
C18_Witness ==
    \E c \in Conns : \E t, u \in Tokens :
        /\ t # u /\ conn = c /\ sess = "Select" /\ ipc[c] = "Select"
        /\ och[t] = Gone /\ t \notin ipend[c]
        /\ u \in ipend[c] /\ och[u].st = "sent"
        /\ req[t] # NoReq /\ req[u] # NoReq
        /\ callbacks[req[t].id] = t /\ callbacks[req[u].id] = u
        /\ result[t] \in {"waiting", "Cancelled"}
        /\ result[u] \in {"waiting", "Cancelled"}
        /\ s2c[c] = <<>> /\ iw[c] = NoFrame


\* C19: Writer::write of a message of encoded length L <= MAX_LEN writes the
\* four bytes of L, most significant first, and L payload bytes; for
\* L = MAX_LEN + 1 it returns InvalidLen and nothing is written.
\* Reader::read returns InvalidLen for a prefix above MAX_LEN and accepts a
\* frame whose prefix is MAX_LEN.
BigEndian(b) == b[1] * 16777216 + b[2] * 65536 + b[3] * 256 + b[4]

WrittenFrames ==
    UNION {Range(s2c[c]) : c \in Conns}
    \cup UNION {Range(c2s[c]) : c \in {d \in Conns : owner[d] = "A"}}
    \cup {iw[c] : c \in {d \in Conns : ipc[d] = "Writing"}}

WritesFrame ==
    /\ sess = "Writing" /\ sess' = "Select" /\ ipc[conn] # "Done"

WriteRefused ==
    /\ sess = "Select" /\ outgoing # <<>>
    /\ callbacks[req[Head(outgoing)].id] = None
    /\ req[Head(outgoing)].len = MAX_LEN + 1
    /\ outgoing' = Tail(outgoing)

ReadsFrame(c) ==
    /\ ipc[c] = "Select" /\ irx[c] = None /\ c2s[c] # <<>>
    /\ copen' = copen
    /\ c2s'[c] = Tail(c2s[c]) \/ ipc'[c] # "Select"

C19_FrameLengthBound ==
    /\ [](\A f \in WrittenFrames :
            /\ Len(f.pre) = 4 /\ \A i \in 1..4 : f.pre[i] \in 0..255
            /\ BigEndian(f.pre) = f.got /\ f.got <= MAX_LEN)
    /\ [][WritesFrame =>
            /\ req[wmsg].len <= MAX_LEN
            /\ Len(c2s'[conn]) = Len(c2s[conn]) + 1
            /\ LET f == c2s'[conn][Len(c2s'[conn])]
               IN BigEndian(f.pre) = req[wmsg].len /\ f.got = req[wmsg].len]_vars
    /\ [][WriteRefused =>
            /\ outRes' = "InvalidLen" /\ sent' = sent
            /\ \A c \in Conns : Len(c2s'[c]) <= Len(c2s[c])]_vars
    /\ [][\A c \in Conns :
            ReadsFrame(c) =>
                LET f == Head(c2s[c])
                IN /\ BigEndian(f.pre) > MAX_LEN =>
                          \/ ires'[c] = "InvalidLen"
                          \/ ~copen[c] /\ ipc'[c] = "none"
                   /\ (BigEndian(f.pre) = MAX_LEN /\ f.got = MAX_LEN /\ f.dec) =>
                          /\ ipc'[c] = "Select" /\ c2s'[c] = Tail(c2s[c])
                          /\ f.t \in ipend'[c] \/ irx'[c] = f.t]_vars

\* A request of MAX_LEN bytes was written, read and answered, the next one
\* of MAX_LEN + 1 bytes was refused, and B's reader refused a prefix above
\* MAX_LEN.
C19_Witness ==
    \E t, u \in Tokens :
        /\ req[t].len = MAX_LEN /\ result[t] = "Ok" /\ reply[t].got = RespLen
        /\ req[u].len = MAX_LEN + 1 /\ outRes = "InvalidLen"
        /\ ires[Ext] = "InvalidLen"


\* C20: every pair (peer_id, envelope) recv yields carries a request that
\* the node with peer identifier peer_id submitted: the requests of A's
\* application are yielded under the name of A, never under another name of
\* B's directory.
C20_YieldedUnderSendersName ==
    \A t \in Tokens : hkey[t] # NoSni => hkey[t] = host["A"]


\* C21: an established inbound session that has no request to read and an
\* empty set of pending replies is suspended in its select; it never goes
\* round its loop without suspending, so the other tasks of a
\* single-threaded executor keep running while the connection is idle.
C21_IdleSessionSuspends ==
    \A c \in Conns : ipc[c] # "Spinning"


\* C22: on a connection with bounded transport buffers the outbound session
\* of A is never blocked in the write of a request while the inbound session
\* of B on the same connection is blocked in the write of a reply, neither
\* of them reading.
OutWriteBlocked ==
    /\ conn # None /\ sess = "Writing"
    /\ ~Room(c2s[conn], req[wmsg].len, InReading(conn))

InWriteBlocked(c) ==
    /\ ipc[c] = "Writing"
    /\ ~Room(s2c[c], iw[c].got, OutReading(c))

C22_NoWriteWriteDeadlock ==
    ~(OutWriteBlocked /\ InWriteBlocked(conn))

====
